---- MODULE Spec2Model ----
(***************************************************************************)
(* Request handling of the Coyolia backend: the auth middleware            *)
(* (middleware/auth.js), the route tables (routes/appointmentRoutes,       *)
(* routes/blogRoutes), the appointment and blog controllers and the two    *)
(* mongoose schemas they write through.                                    *)
(*                                                                         *)
(* Every client p sends one request at a time.  A handler is cut at its    *)
(* awaits: each action is the code between two awaits, together with the   *)
(* store or collaborator call that the await waits for.  The collaborators *)
(* (email, cloudinary) succeed or throw nondeterministically; the store    *)
(* rejects a write for the reasons the schemas give (validators, the       *)
(* unique index) and blog.save() may in addition reject.                   *)
(***************************************************************************)
EXTENDS Integers, Sequences, FiniteSets, TLC

\* ----------------------------------------------------------------- bounds
NumProcs == 2            \* clients that may have a request in flight at once
MaxRequests == 4         \* requests served in a behaviour, one at a time
MaxRaceRequests == 3     \* requests served in a behaviour, overlapping
MaxTripRequests == 3     \* requests served in a behaviour of bookings and reads

Procs == 1..NumProcs

\* ------------------------------------------------------ program constants
TitleMaxLength == 100
DefaultMaxFileUpload == 5000000
NotesMaxLength == 500

ApptTypeEnum == {"15min", "1hour"}
StatusEnum == {"pending", "confirmed", "completed", "cancelled"}
DefaultStatus == "pending"

\* ------------------------------------------------------------- identities
NoUser == [id |-> "", role |-> ""]

\* A bearer token: present or not, signature/expiry verifying or not, and the
\* payload jwt.verify returns for it.
NoToken == [present |-> FALSE, sig |-> FALSE, id |-> "", role |-> ""]
Signed(i, r) == [present |-> TRUE, sig |-> TRUE, id |-> i, role |-> r]
Forged(i, r) == [present |-> TRUE, sig |-> FALSE, id |-> i, role |-> r]

\* The Authorization header, split at its first space.
NoHeader == [scheme |-> "", token |-> NoToken]
Header(s, t) == [scheme |-> s, token |-> t]

GoodTokens ==
  {Signed("u1", "user"), Signed("u2", "user"), Signed("a1", "admin")}

AllHeaders ==
  {NoHeader, Header("Basic", Signed("a1", "admin")), Header("Bearer", NoToken),
   Header("Bearer", Forged("a1", "admin")), Header("Bearer", Signed("u1", ""))}
  \cup {Header("Bearer", t) : t \in GoodTokens}

\* --------------------------------------------------------- request bodies
NoTitle == [given |-> FALSE, ws |-> 0, len |-> 0]
\* A title string: len characters from the first to the last non-blank one,
\* ws blanks before and after them.
Title(w, n) == [given |-> TRUE, ws |-> w, len |-> n]
RawLength(t) == t.ws + t.len

NoFile == [present |-> FALSE, mime |-> << >>, size |-> 0]
File(m, s) == [present |-> TRUE, mime |-> m, size |-> s]

\* A notes string of len characters.
NoNotes == [given |-> FALSE, len |-> 0]
Notes(n) == [given |-> TRUE, len |-> n]

\* A date is the instant its string denotes, 0 when the body names none.
NoBody ==
  [user |-> "", counselor |-> "", date |-> 0, time |-> "", type |-> "",
   status |-> "", notes |-> NoNotes, title |-> NoTitle, content |-> FALSE]

NoReq ==
  [op |-> "", hdr |-> NoHeader, user |-> NoUser, id |-> 0,
   body |-> NoBody, file |-> NoFile]

NoDoc ==
  [found |-> FALSE, user |-> "", counselor |-> "", date |-> 0, time |-> "",
   type |-> "", status |-> "", notes |-> NoNotes, image |-> 0, newImage |-> 0]

\* A populated reference: the referenced User document, or null.
NoRef == [found |-> FALSE, id |-> ""]

\* The appointment a response carries, its references populated.
NoPayload ==
  [user |-> NoRef, counselor |-> NoRef, date |-> 0, time |-> "", type |-> "",
   status |-> "", notes |-> NoNotes]

NoRes == [status |-> 0, err |-> "", data |-> "", id |-> 0, payload |-> NoPayload]

\* What a request found on arrival and has done since: the owner of the
\* record it names ("" when there is none), whether this caller has deleted
\* that record before, whether the handler was entered, the writes, sends,
\* uploads and destroys it has made and, for a booking, the generation of its
\* slot when the booking was decided (by the pre-check or by the write) and
\* the id of the appointment that held the slot then.  For a getAppointment:
\* whether it follows, on the same connection and with the same identity, the
\* createAppointment that returned the id it names, and that request's body.
NoEff ==
  [owner |-> "", goneBefore |-> FALSE, ran |-> FALSE,
   writes |-> 0, emails |-> 0, emailFailed |-> FALSE,
   uploads |-> 0, destroys |-> 0, destroyFailed |-> FALSE, destroyed |-> 0,
   gen |-> 0, win |-> 0, follows |-> FALSE, input |-> NoBody]

VARIABLES
  appts,      \* Appointment collection: _id -> document
  nextAppt,   \* number of appointment ids handed out
  blogs,      \* Blog collection: _id -> document
  nextBlog,   \* number of blog ids handed out
  assets,     \* public ids of the assets held by the image host
  nextAsset,  \* number of asset ids handed out
  pc,         \* per client: where its request is
  req,        \* per client: the request (req.headers, req.user, req.params, req.body)
  doc,        \* per client: the document its handler holds
  res,        \* per client: the response sent
  eff,        \* per client: what its request has done so far (history)
  removed,    \* <<appointment id, caller id>> of the deletes answered 200 (history)
  gen,        \* per slot: how often the slot was vacated (history)
  served      \* requests routed so far

vars ==
  <<appts, nextAppt, blogs, nextBlog, assets, nextAsset, pc, req, doc, res,
    eff, removed, gen, served>>

apptVars == <<appts, nextAppt, removed, gen>>
blogVars == <<blogs, nextBlog, assets, nextAsset>>

\* ---------------------------------------------------------------- inputs
\* The ids that name a document of the User collection.  The token of "u2"
\* still verifies: protect looks no account up.
Users == {"u1", "a1", "c1"}

Counselors == {"c1"}
\* An id of the right shape that names no user.
NoSuchUsers == {"c0"}
Dates == {1, 2}
Times == {"09:00"}
Slots == (Counselors \cup NoSuchUsers) \X Dates \X Times
TypeInputs == {"15min", "2hour"}

ApptOps == {"createAppointment", "updateAppointment", "deleteAppointment"}
BlogOps == {"createBlog", "updateBlog", "deleteBlog", "uploadBlogImage"}
AdminOnlyOps == {"getAppointments"} \cup BlogOps

\* ------------------------------------------------------ middleware/auth.js
\* protect, lines 10-12: the token is what follows the scheme "Bearer".
BearerToken(h) == IF h.scheme = "Bearer" THEN h.token ELSE NoToken

\* protect, lines 14-24: 401 without a token or when jwt.verify throws,
\* else req.user is the decoded payload.
protect(h) ==
  LET token == BearerToken(h)
  IN  IF ~token.present
        THEN [status |-> 401, user |-> NoUser]
        ELSE IF token.sig
               THEN [status |-> 0, user |-> [id |-> token.id, role |-> token.role]]
               ELSE [status |-> 401, user |-> NoUser]

authorizeAny(roles, user) == IF user.role = "" THEN 403 ELSE 0

\* authorize(...roles), lines 27-35.
authorize(roles, user) ==
  IF user.role = "" \/ user.role \notin roles THEN 403 ELSE 0

\* The route tables: every modelled route runs protect, the admin routes
\* then authorize('admin').
RouteChain(op, h) ==
  LET a == protect(h)
  IN  IF a.status # 0 THEN a
      ELSE IF op \in AdminOnlyOps /\ authorize({"admin"}, a.user) # 0
             THEN [status |-> authorize({"admin"}, a.user), user |-> a.user]
             ELSE a

\* The first await of each handler.
Entry(op) ==
  CASE op = "getAppointments"   -> "ga_respond"
    [] op = "getAppointment"    -> "gt_findById"
    [] op = "createAppointment" -> "ca_findOne"
    [] op = "updateAppointment" -> "ua_findById"
    [] op = "deleteAppointment" -> "da_findById"
    [] op = "createBlog"        -> "cb_create"
    [] op = "updateBlog"        -> "ub_findById"
    [] op = "deleteBlog"        -> "db_findById"
    [] op = "uploadBlogImage"   -> "ui_findById"

\* The error middleware answers an ErrorResponse with its statusCode; for an
\* error thrown by the store it answers with the status of the error kind.
errorHandler(err) ==
  CASE err = "ValidationError" -> 400
    [] err = "E11000"          -> 400
    [] OTHER                   -> 500

Fail(code) == [NoRes EXCEPT !.status = code, !.err = "ErrorResponse"]
Thrown(err) == [NoRes EXCEPT !.status = errorHandler(err), !.err = err]
Ok(code, data, i) == [NoRes EXCEPT !.status = code, !.data = data, !.id = i]

\* The owner of the record a request names: the appointment's user, the
\* blog's author.
Owner(op, i) ==
  IF op \in ApptOps \cup {"getAppointment"} /\ i \in DOMAIN appts
    THEN appts[i].user
  ELSE IF op \in BlogOps /\ i \in DOMAIN blogs THEN blogs[i].author
  ELSE ""

\* A request arrives at client p's connection and runs through the route's
\* middleware chain up to the handler.
Route(p, requests, budget) ==
  /\ pc[p] \in {"idle", "done"}
  /\ served < budget
  /\ \E r \in requests :
       LET a == RouteChain(r.op, r.hdr)
           follows == /\ r.op = "getAppointment"
                      /\ a.status = 0
                      /\ pc[p] = "done"
                      /\ req[p].op = "createAppointment"
                      /\ res[p].status = 201
                      /\ res[p].id = r.id
                      /\ req[p].user.id = a.user.id
           found == [NoEff EXCEPT !.owner = Owner(r.op, r.id),
                                  !.goneBefore = (<<r.id, a.user.id>> \in removed),
                                  !.follows = follows,
                                  !.input = IF follows THEN req[p].body ELSE NoBody]
       IN  /\ req' = [req EXCEPT ![p] = [r EXCEPT !.user = a.user]]
           /\ IF a.status # 0
                THEN /\ pc' = [pc EXCEPT ![p] = "done"]
                     /\ res' = [res EXCEPT ![p] = Fail(a.status)]
                     /\ eff' = [eff EXCEPT ![p] = found]
                ELSE /\ pc' = [pc EXCEPT ![p] = Entry(r.op)]
                     /\ res' = [res EXCEPT ![p] = NoRes]
                     /\ eff' = [eff EXCEPT ![p] = [found EXCEPT !.ran = TRUE]]
  /\ doc' = [doc EXCEPT ![p] = NoDoc]
  /\ served' = served + 1
  /\ UNCHANGED <<apptVars, blogVars>>

Finish(p, r) ==
  /\ pc' = [pc EXCEPT ![p] = "done"]
  /\ res' = [res EXCEPT ![p] = r]

\* ------------------------------------------------- models/Appointment.js
SlotOf(d) == <<d.counselor, d.date, d.time>>

\* notes: { maxlength: [500, ...] }
NotesLengthOk(n) == n.len <= NotesMaxLength

\* Schema validators: required paths, the enums of type and status, the
\* length of notes.
ValidAppointment(d) ==
  /\ d.user # "" /\ d.counselor # "" /\ d.date # 0 /\ d.time # ""
  /\ d.type \in ApptTypeEnum
  /\ d.status \in StatusEnum
  /\ NotesLengthOk(d.notes)

InsertAllowedNoIndex(store, d) == TRUE

\* AppointmentSchema.index({counselor, date, time}, {unique: true}) on insert.
InsertAllowed(store, d) ==
  \A j \in DOMAIN store : SlotOf(store[j]) # SlotOf(d)

UpdateAllowedInsertOnly(store, i, d) == TRUE

\* The same index when document i is rewritten as d.
UpdateAllowed(store, i, d) ==
  \A j \in DOMAIN store \ {i} : SlotOf(store[j]) # SlotOf(d)

Put(store, i, d) == [j \in DOMAIN store \cup {i} |-> IF j = i THEN d ELSE store[j]]
Drop(store, i) == [j \in DOMAIN store \ {i} |-> store[j]]

Held(d) ==
  [NoDoc EXCEPT !.found = TRUE, !.user = d.user, !.counselor = d.counselor,
                !.date = d.date, !.time = d.time, !.type = d.type,
                !.status = d.status, !.notes = d.notes]

\* ---------------------------------- controllers: appointments (lines 1-164)
IsOwnerOrAdminLax(owner, user) == TRUE

\* The handlers' ownership test: the caller is the record's user/author or
\* has role admin.
IsOwnerOrAdmin(owner, user) == owner = user.id \/ user.role = "admin"

\* getAppointments, lines 9-11.
GetAppointments(p) ==
  /\ pc[p] = "ga_respond"
  /\ Finish(p, Ok(200, "list", 0))
  /\ UNCHANGED <<apptVars, blogVars, req, doc, eff, served>>

\* createAppointment, line 49: req.body.user = req.user.id, whatever user
\* the body named.
BodyUser(b, user) == [b EXCEPT !.user = user.id]

\* status: { default: 'pending' }: the default fills a path the document
\* was not given.
StatusDefault(s) == IF s = "" THEN DefaultStatus ELSE s

\* new Appointment(body): the schema's paths of the body, defaults applied.
NewAppointment(b) ==
  [user |-> b.user, counselor |-> b.counselor, date |-> b.date,
   time |-> b.time, type |-> b.type, status |-> StatusDefault(b.status),
   notes |-> b.notes]

\* populate(path): the referenced document in place of the id, null when
\* the id names none.
Populate(users, i) ==
  IF i \in users THEN [found |-> TRUE, id |-> i] ELSE NoRef

\* findById(id).populate(['user', 'counselor']), lines 17-20, as the
\* response serializes it.
Populated(users, d) ==
  [user |-> Populate(users, d.user), counselor |-> Populate(users, d.counselor),
   date |-> d.date, time |-> d.time, type |-> d.type, status |-> d.status,
   notes |-> d.notes]

\* getAppointment, lines 16-42.  appointment.user._id of a user populated
\* to null throws a TypeError.
GetAppointment(p) ==
  /\ pc[p] = "gt_findById"
  /\ LET i == req[p].id
     IN  IF i \notin DOMAIN appts
           THEN Finish(p, Fail(404))
           ELSE LET appointment == Populated(Users, appts[i])
                IN  IF ~appointment.user.found
                      THEN Finish(p, Thrown("TypeError"))
                      ELSE IF ~IsOwnerOrAdmin(appointment.user.id, req[p].user)
                        THEN Finish(p, Fail(401))
                        ELSE Finish(p, [Ok(200, "doc", i) EXCEPT
                                          !.payload = appointment])
  /\ UNCHANGED <<apptVars, blogVars, req, doc, eff, served>>

\* createAppointment, lines 49-65: the pre-check.
CreateFindOne(p) ==
  /\ pc[p] = "ca_findOne"
  /\ LET b == req[p].body
         existing == {i \in DOMAIN appts : SlotOf(appts[i]) = SlotOf(b)}
     IN  IF existing # {}
           THEN /\ Finish(p, Fail(400))
                /\ eff' = [eff EXCEPT ![p].gen = gen[SlotOf(b)],
                                      ![p].win = CHOOSE i \in existing : TRUE]
           ELSE /\ pc' = [pc EXCEPT ![p] = "ca_create"]
                /\ UNCHANGED <<res, eff>>
  /\ UNCHANGED <<apptVars, blogVars, req, doc, served>>

\* createAppointment, line 67: Appointment.create(req.body), req.body.user
\* having been set to req.user.id (line 49).
CreateInsert(p) ==
  /\ pc[p] = "ca_create"
  /\ LET b == req[p].body
         d == NewAppointment(BodyUser(b, req[p].user))
         i == nextAppt + 1
     IN  IF ~ValidAppointment(d)
           THEN /\ Finish(p, Thrown("ValidationError"))
                /\ UNCHANGED <<apptVars, doc, eff>>
           ELSE IF ~InsertAllowed(appts, d)
             THEN /\ Finish(p, Thrown("E11000"))
                  /\ eff' = [eff EXCEPT ![p].gen = gen[SlotOf(d)],
                                        ![p].win =
                                          CHOOSE j \in DOMAIN appts :
                                            SlotOf(appts[j]) = SlotOf(d)]
                  /\ UNCHANGED <<apptVars, doc>>
             ELSE /\ appts' = Put(appts, i, d)
                  /\ nextAppt' = i
                  /\ doc' = [doc EXCEPT ![p] = Held(d)]
                  /\ eff' = [eff EXCEPT ![p].writes = @ + 1,
                                        ![p].gen = gen[SlotOf(d)], ![p].win = i]
                  /\ pc' = [pc EXCEPT ![p] = "ca_email"]
                  /\ res' = [res EXCEPT ![p].id = i]
                  /\ UNCHANGED <<removed, gen>>
  /\ UNCHANGED <<blogVars, req, served>>

AfterEmailStrict(sent) == IF sent THEN 201 ELSE 500

\* createAppointment, lines 72-85: the catch swallows a failed send.
AfterEmail(sent) == 201

\* createAppointment, lines 70-85: one sendEmail, then the 201.
CreateSendEmail(p) ==
  /\ pc[p] = "ca_email"
  /\ \E sent \in BOOLEAN :
       /\ eff' = [eff EXCEPT ![p].emails = @ + 1, ![p].emailFailed = ~sent]
       /\ IF AfterEmail(sent) = 201
            THEN Finish(p, Ok(201, "doc", res[p].id))
            ELSE Finish(p, Thrown("EmailError"))
  /\ UNCHANGED <<apptVars, blogVars, req, doc, served>>

\* updateAppointment, lines 92-111.
UpdateFindById(p) ==
  /\ pc[p] = "ua_findById"
  /\ LET i == req[p].id
     IN  IF i \notin DOMAIN appts
           THEN Finish(p, Fail(404)) /\ UNCHANGED doc
           ELSE IF ~IsOwnerOrAdmin(appts[i].user, req[p].user)
             THEN Finish(p, Fail(401)) /\ UNCHANGED doc
             ELSE /\ pc' = [pc EXCEPT ![p] = "ua_update"]
                  /\ doc' = [doc EXCEPT ![p] = Held(appts[i])]
                  /\ UNCHANGED res
  /\ UNCHANGED <<apptVars, blogVars, req, eff, served>>

\* The update document applied to a stored one: the paths the body names.
Patched(d, b) ==
  [d EXCEPT !.user = IF b.user = "" THEN @ ELSE b.user,
            !.status = IF b.status = "" THEN @ ELSE b.status,
            !.notes = IF b.notes.given THEN b.notes ELSE @,
            !.counselor = IF b.counselor = "" THEN @ ELSE b.counselor,
            !.date = IF b.date = 0 THEN @ ELSE b.date,
            !.time = IF b.time = "" THEN @ ELSE b.time,
            !.type = IF b.type = "" THEN @ ELSE b.type]

\* updateAppointment, lines 113-118: findByIdAndUpdate with runValidators.
UpdateWrite(p) ==
  /\ pc[p] = "ua_update"
  /\ LET i == req[p].id
         b == req[p].body
     IN  IF i \notin DOMAIN appts
           THEN /\ Finish(p, Ok(200, "null", i))
                /\ UNCHANGED <<apptVars, doc, eff>>
           ELSE LET d == Patched(appts[i], b)
                    old == SlotOf(appts[i])
                IN  IF ~ValidAppointment(d)
                      THEN /\ Finish(p, Thrown("ValidationError"))
                           /\ UNCHANGED <<apptVars, doc, eff>>
                      ELSE IF ~UpdateAllowed(appts, i, d)
                        THEN /\ Finish(p, Thrown("E11000"))
                             /\ UNCHANGED <<apptVars, doc, eff>>
                        ELSE /\ appts' = Put(appts, i, d)
                             /\ gen' = IF SlotOf(d) = old THEN gen
                                       ELSE [gen EXCEPT ![old] = @ + 1]
                             /\ doc' = [doc EXCEPT ![p] = Held(d)]
                             /\ eff' = [eff EXCEPT ![p].writes = @ + 1]
                             /\ Finish(p, Ok(200, "doc", i))
                             /\ UNCHANGED <<nextAppt, removed>>
  /\ UNCHANGED <<blogVars, req, served>>

\* deleteAppointment, lines 125-144.
DeleteFindById(p) ==
  /\ pc[p] = "da_findById"
  /\ LET i == req[p].id
     IN  IF i \notin DOMAIN appts
           THEN Finish(p, Fail(404)) /\ UNCHANGED doc
           ELSE IF ~IsOwnerOrAdmin(appts[i].user, req[p].user)
             THEN Finish(p, Fail(401)) /\ UNCHANGED doc
             ELSE /\ pc' = [pc EXCEPT ![p] = "da_remove"]
                  /\ doc' = [doc EXCEPT ![p] = Held(appts[i])]
                  /\ UNCHANGED res
  /\ UNCHANGED <<apptVars, blogVars, req, eff, served>>

RemoveNothing(store, i) == store

\* appointment.remove(): the document with this _id leaves the collection.
Remove(store, i) == Drop(store, i)

\* deleteAppointment, lines 146-148.
DeleteRemove(p) ==
  /\ pc[p] = "da_remove"
  /\ LET i == req[p].id
     IN  /\ appts' = Remove(appts, i)
         /\ removed' = removed \cup {<<i, req[p].user.id>>}
         /\ gen' = IF i \in DOMAIN appts
                     THEN [gen EXCEPT ![SlotOf(appts[i])] = @ + 1]
                     ELSE gen
         /\ eff' = [eff EXCEPT ![p].writes = @ + 1]
         /\ Finish(p, Ok(200, "empty", i))
  /\ UNCHANGED <<nextAppt, blogVars, req, doc, served>>

\* ---------------------------------------------------------- models/Blog.js
\* title: { trim: true }
Trim(t) == [t EXCEPT !.ws = 0]

\* title: { maxlength: [100, ...] }
TitleLengthOk(t) == t.len <= TitleMaxLength

\* The validators of the paths a write sets: title required and at most
\* 100 characters after the trim, content required.
ValidTitle(t) == t.given /\ Trim(t).len > 0 /\ TitleLengthOk(Trim(t))

\* --------------------------------------- controllers: blogs (lines 293-538)
\* validateRequiredFields(req.body, ['title', 'content']), lines 299-308:
\* a field is missing when body[field] is falsy.
MissingRequired(b) ==
  \/ ~b.title.given \/ RawLength(b.title) = 0
  \/ ~b.content

\* createBlog, lines 355-373.
CreateBlog(p) ==
  /\ pc[p] = "cb_create"
  /\ LET b == req[p].body
         i == nextBlog + 1
     IN  IF MissingRequired(b)
           THEN /\ Finish(p, Fail(400))
                /\ UNCHANGED <<blogVars, eff>>
           ELSE IF ~ValidTitle(b.title)
             THEN /\ Finish(p, Fail(500))
                  /\ UNCHANGED <<blogVars, eff>>
             ELSE /\ blogs' = Put(blogs, i, [author |-> req[p].user.id,
                                             title |-> Trim(b.title), image |-> 0])
                  /\ nextBlog' = i
                  /\ eff' = [eff EXCEPT ![p].writes = @ + 1]
                  /\ Finish(p, Ok(201, "doc", i))
                  /\ UNCHANGED <<assets, nextAsset>>
  /\ UNCHANGED <<apptVars, req, doc, served>>

HeldBlog(d) ==
  [NoDoc EXCEPT !.found = TRUE, !.user = d.author, !.image = d.image]

\* The lookup and authorization check the three blog mutations begin with
\* (lines 381-396, 419-434, 462-477): the status it ends the request with,
\* or 0.
BlogGate(store, i, user) ==
  IF i \notin DOMAIN store THEN 404
  ELSE IF ~IsOwnerOrAdmin(store[i].author, user) THEN 403
  ELSE 0

\* updateBlog, lines 381-396.
UpdateBlogFindById(p) ==
  /\ pc[p] = "ub_findById"
  /\ LET g == BlogGate(blogs, req[p].id, req[p].user)
     IN  IF g # 0
           THEN Finish(p, Fail(g)) /\ UNCHANGED doc
           ELSE /\ pc' = [pc EXCEPT ![p] = "ub_update"]
                /\ doc' = [doc EXCEPT ![p] = HeldBlog(blogs[req[p].id])]
                /\ UNCHANGED res
  /\ UNCHANGED <<apptVars, blogVars, req, eff, served>>

\* updateBlog, lines 398-411: findByIdAndUpdate with runValidators; the
\* catch turns whatever it throws into a 500.
UpdateBlogWrite(p) ==
  /\ pc[p] = "ub_update"
  /\ LET i == req[p].id
         b == req[p].body
     IN  IF i \notin DOMAIN blogs
           THEN /\ Finish(p, Ok(200, "null", i))
                /\ UNCHANGED <<blogVars, eff>>
           ELSE IF b.title.given /\ ~ValidTitle(b.title)
             THEN /\ Finish(p, Fail(500))
                  /\ UNCHANGED <<blogVars, eff>>
             ELSE /\ blogs' = [blogs EXCEPT ![i].title =
                                 IF b.title.given THEN Trim(b.title) ELSE @]
                  /\ eff' = [eff EXCEPT ![p].writes = @ + 1]
                  /\ Finish(p, Ok(200, "doc", i))
                  /\ UNCHANGED <<nextBlog, assets, nextAsset>>
  /\ UNCHANGED <<apptVars, req, doc, served>>

\* deleteBlog, lines 419-437.
DeleteBlogFindById(p) ==
  /\ pc[p] = "db_findById"
  /\ LET g == BlogGate(blogs, req[p].id, req[p].user)
     IN  IF g # 0
           THEN Finish(p, Fail(g)) /\ UNCHANGED doc
           ELSE /\ doc' = [doc EXCEPT ![p] = HeldBlog(blogs[req[p].id])]
                /\ pc' = [pc EXCEPT ![p] =
                            IF blogs[req[p].id].image # 0
                              THEN "db_destroy" ELSE "db_deleteOne"]
                /\ UNCHANGED res
  /\ UNCHANGED <<apptVars, blogVars, req, eff, served>>

AfterDestroyStrict(destroyed) == IF destroyed THEN "db_deleteOne" ELSE "failed"

\* deleteBlog, lines 438-445: the inner catch logs a failed destroy and the
\* handler goes on to blog.deleteOne().
AfterDestroy(destroyed) == "db_deleteOne"

\* deleteBlog, lines 437-443: cloudinary.uploader.destroy of the image.
DeleteBlogDestroy(p) ==
  /\ pc[p] = "db_destroy"
  /\ \E destroyed \in BOOLEAN :
       /\ assets' = IF destroyed THEN assets \ {doc[p].image} ELSE assets
       /\ eff' = [eff EXCEPT ![p].destroys = @ + 1,
                             ![p].destroyFailed = ~destroyed]
       /\ IF AfterDestroy(destroyed) = "db_deleteOne"
            THEN pc' = [pc EXCEPT ![p] = "db_deleteOne"] /\ UNCHANGED res
            ELSE Finish(p, Fail(500))
  /\ UNCHANGED <<apptVars, blogs, nextBlog, nextAsset, req, doc, served>>

\* deleteBlog, lines 445-450.
DeleteBlogDeleteOne(p) ==
  /\ pc[p] = "db_deleteOne"
  /\ blogs' = Drop(blogs, req[p].id)
  /\ eff' = [eff EXCEPT ![p].writes = @ + 1]
  /\ Finish(p, Ok(200, "empty", req[p].id))
  /\ UNCHANGED <<apptVars, nextBlog, assets, nextAsset, req, doc, served>>

ImagePng == <<"i", "m", "a", "g", "e", "/", "p", "n", "g">>
TextPlain == <<"t", "e", "x", "t", "/", "p", "l", "a", "i", "n">>

\* file.mimetype.startsWith('image'), line 490.
StartsWithImage(m) ==
  Len(m) >= 5 /\ SubSeq(m, 1, 5) = <<"i", "m", "a", "g", "e">>

\* process.env.MAX_FILE_UPLOAD || 5000000, line 487, with the variable unset.
maxSize == DefaultMaxFileUpload

FileRejectedNoSizeCheck(f) == ~f.present \/ ~StartsWithImage(f.mime)

\* uploadBlogImage, lines 479-502: the three checks that end in a 400.
FileRejected(f) ==
  \/ ~f.present
  \/ ~StartsWithImage(f.mime)
  \/ f.size > maxSize

\* uploadBlogImage, lines 462-502.
UploadFindById(p) ==
  /\ pc[p] = "ui_findById"
  /\ LET g == BlogGate(blogs, req[p].id, req[p].user)
     IN  IF g # 0
           THEN Finish(p, Fail(g)) /\ UNCHANGED doc
           ELSE IF FileRejected(req[p].file)
             THEN Finish(p, Fail(400)) /\ UNCHANGED doc
             ELSE /\ pc' = [pc EXCEPT ![p] = "ui_upload"]
                  /\ doc' = [doc EXCEPT ![p] = HeldBlog(blogs[req[p].id])]
                  /\ UNCHANGED res
  /\ UNCHANGED <<apptVars, blogVars, req, eff, served>>

AfterUploadSwallowed(uploaded, image) ==
  IF image # 0 THEN "ui_destroy" ELSE IF uploaded THEN "ui_save" ELSE "failed"

\* uploadBlogImage, lines 505-514 and 534-537: an upload that throws leaves
\* the try block for the outer catch; one that returns is followed by the
\* destroy of the previous image when blog.image?.public_id is set.
AfterUpload(uploaded, image) ==
  IF ~uploaded THEN "failed"
  ELSE IF image # 0 THEN "ui_destroy" ELSE "ui_save"

\* uploadBlogImage, lines 505-514: cloudinary.uploader.upload.
UploadToCloud(p) ==
  /\ pc[p] = "ui_upload"
  /\ eff' = [eff EXCEPT ![p].uploads = @ + 1]
  /\ \E uploaded \in BOOLEAN :
       /\ IF uploaded
            THEN /\ nextAsset' = nextAsset + 1
                 /\ assets' = assets \cup {nextAsset + 1}
                 /\ doc' = [doc EXCEPT ![p].newImage = nextAsset + 1]
            ELSE UNCHANGED <<assets, nextAsset, doc>>
       /\ IF AfterUpload(uploaded, doc[p].image) = "failed"
            THEN Finish(p, Fail(500))
            ELSE /\ pc' = [pc EXCEPT ![p] = AfterUpload(uploaded, doc[p].image)]
                 /\ UNCHANGED res
  /\ UNCHANGED <<apptVars, blogs, nextBlog, req, served>>

\* uploadBlogImage, lines 514-520: destroy of the previous image, a failure
\* logged and swallowed.
UploadDestroyOld(p) ==
  /\ pc[p] = "ui_destroy"
  /\ \E destroyed \in BOOLEAN :
       /\ assets' = IF destroyed THEN assets \ {doc[p].image} ELSE assets
       /\ eff' = [eff EXCEPT ![p].destroys = @ + 1,
                             ![p].destroyFailed = ~destroyed,
                             ![p].destroyed = IF destroyed THEN doc[p].image ELSE @]
  /\ pc' = [pc EXCEPT ![p] = "ui_save"]
  /\ UNCHANGED <<apptVars, blogs, nextBlog, nextAsset, req, doc, res, served>>

\* uploadBlogImage, lines 523-537: blog.image is set and blog.save() awaited;
\* save rejects when the document is gone or the store fails.
UploadSave(p) ==
  /\ pc[p] = "ui_save"
  /\ LET i == req[p].id
     IN  \/ /\ i \in DOMAIN blogs
            /\ blogs' = [blogs EXCEPT ![i].image = doc[p].newImage]
            /\ eff' = [eff EXCEPT ![p].writes = @ + 1]
            /\ Finish(p, Ok(200, "doc", i))
         \/ /\ Finish(p, Fail(500))
            /\ UNCHANGED <<blogs, eff>>
  /\ UNCHANGED <<apptVars, nextBlog, assets, nextAsset, req, doc, served>>

\* ---------------------------------------------------------------- requests
Request(op, h, i, b, f) ==
  [op |-> op, hdr |-> h, user |-> NoUser, id |-> i, body |-> b, file |-> f]

\* The ids a client can name: those handed out so far, or the next one.
ApptIds == 1..(IF nextAppt = 0 THEN 1 ELSE nextAppt)
BlogIds == 1..(IF nextBlog = 0 THEN 1 ELSE nextBlog)

ApptBody(c, d, t, ty) ==
  [NoBody EXCEPT !.counselor = c, !.date = d, !.time = t, !.type = ty]

CreateBodies ==
  {ApptBody(c, d, t, ty) :
     c \in Counselors, d \in Dates, t \in Times, ty \in TypeInputs}

UpdateBodies ==
  {ApptBody("", d, "", "") : d \in Dates}
    \cup {ApptBody(c, 0, "", "") : c \in Counselors}
    \cup {ApptBody("", 0, t, "") : t \in Times}
    \cup {ApptBody("", 0, "", ty) : ty \in {"1hour", "2hour"}}

TitleInputs ==
  {NoTitle, Title(0, 0), Title(1, 0), Title(0, TitleMaxLength),
   Title(0, TitleMaxLength + 1), Title(1, TitleMaxLength)}

BlogBodies ==
  {[NoBody EXCEPT !.title = t, !.content = c] : t \in TitleInputs, c \in BOOLEAN}

FileInputs ==
  {NoFile, File(ImagePng, maxSize), File(ImagePng, maxSize + 1),
   File(TextPlain, maxSize)}

ApptRequests(hs, cbs, ubs) ==
  {Request("createAppointment", h, 0, b, NoFile) : h \in hs, b \in cbs}
    \cup {Request("updateAppointment", h, i, b, NoFile) :
            h \in hs, i \in ApptIds, b \in ubs}
    \cup {Request("deleteAppointment", h, i, NoBody, NoFile) :
            h \in hs, i \in ApptIds}

BlogRequests(hs, bbs, fs) ==
  {Request("createBlog", h, 0, b, NoFile) : h \in hs, b \in bbs}
    \cup {Request("updateBlog", h, i, b, NoFile) :
            h \in hs, i \in BlogIds, b \in bbs}
    \cup {Request("deleteBlog", h, i, NoBody, NoFile) : h \in hs, i \in BlogIds}
    \cup {Request("uploadBlogImage", h, i, NoBody, f) :
            h \in hs, i \in BlogIds, f \in fs}

AdminHeaders == {Header("Bearer", Signed("a1", "admin"))}

\* Every route under every credential, one well-formed body per route.
GuardRequests ==
  {Request("getAppointments", h, 0, NoBody, NoFile) : h \in AllHeaders}
    \cup ApptRequests(AllHeaders,
                      {ApptBody("c1", d, "09:00", "15min") : d \in Dates},
                      {ApptBody("", 2, "", "")})
    \cup BlogRequests(AllHeaders,
                      {[NoBody EXCEPT !.title = Title(0, TitleMaxLength),
                                      !.content = TRUE]},
                      {File(ImagePng, maxSize)})

\* One user booking and rebooking, requests overlapping.
RaceRequests ==
  ApptRequests({Header("Bearer", Signed("u1", "user"))},
               CreateBodies,
               {b \in UpdateBodies : b.type = ""})

NotesInputs == {NoNotes, Notes(NotesMaxLength), Notes(NotesMaxLength + 1)}

\* The bodies of a booking: a counselor who exists or not, a user of the
\* body's own, a status or none, notes or none.
BookingBodies ==
  {[ApptBody(c, 1, "09:00", "15min") EXCEPT !.user = u, !.status = st, !.notes = n] :
     c \in Counselors \cup NoSuchUsers, u \in {"", "a1"},
     st \in {"", "confirmed", "open"}, n \in NotesInputs}

TripHeaders ==
  {Header("Bearer", Signed("u1", "user")), Header("Bearer", Signed("u2", "user"))}

\* Users booking, reading, changing and cancelling appointments.
TripRequests ==
  ApptRequests(TripHeaders, BookingBodies,
               {[NoBody EXCEPT !.status = "cancelled"]})
    \cup {Request("getAppointment", h, i, NoBody, NoFile) :
            h \in TripHeaders, i \in ApptIds}

\* The admin editing blogs, every body and file.
EditingRequests == BlogRequests(AdminHeaders, BlogBodies, FileInputs)

\* ------------------------------------------------------------------- specs
Init ==
  /\ appts = << >>
  /\ nextAppt = 0
  /\ blogs = << >>
  /\ nextBlog = 0
  /\ assets = {}
  /\ nextAsset = 0
  /\ pc = [p \in Procs |-> "idle"]
  /\ req = [p \in Procs |-> NoReq]
  /\ doc = [p \in Procs |-> NoDoc]
  /\ res = [p \in Procs |-> NoRes]
  /\ eff = [p \in Procs |-> NoEff]
  /\ removed = {}
  /\ gen = [s \in Slots |-> 0]
  /\ served = 0

ApptStep(p) ==
  \/ CreateFindOne(p) \/ CreateInsert(p) \/ CreateSendEmail(p)
  \/ UpdateFindById(p) \/ UpdateWrite(p)
  \/ DeleteFindById(p) \/ DeleteRemove(p)

BlogStep(p) ==
  \/ CreateBlog(p)
  \/ UpdateBlogFindById(p) \/ UpdateBlogWrite(p)
  \/ DeleteBlogFindById(p) \/ DeleteBlogDestroy(p) \/ DeleteBlogDeleteOne(p)
  \/ UploadFindById(p) \/ UploadToCloud(p) \/ UploadDestroyOld(p) \/ UploadSave(p)

\* The one client served when requests do not overlap.
Solo == {p \in Procs : \A q \in Procs : p <= q}

\* Every route under every credential, one request at a time.
Next ==
  \E p \in Solo :
    \/ Route(p, GuardRequests, MaxRequests)
    \/ GetAppointments(p) \/ ApptStep(p) \/ BlogStep(p)

Spec == Init /\ [][Next]_vars

\* Appointment requests of several clients, interleaved at the awaits.
NextAppt == \E p \in Procs : Route(p, RaceRequests, MaxRaceRequests) \/ ApptStep(p)

SpecAppt == Init /\ [][NextAppt]_vars

\* The admin's blog requests, one request at a time.
NextBlog == \E p \in Solo : Route(p, EditingRequests, MaxRequests) \/ BlogStep(p)

SpecBlog == Init /\ [][NextBlog]_vars

\* Bookings and the reads that follow them, one request at a time.
NextTrip ==
  \E p \in Solo :
    \/ Route(p, TripRequests, MaxTripRequests)
    \/ GetAppointment(p) \/ ApptStep(p)

SpecTrip == Init /\ [][NextTrip]_vars

\* ------------------------------------------------------------------ claims
Done(p, op) == pc[p] = "done" /\ req[p].op = op

\* What the claims mean by a caller: the identity of a bearer token that
\* verifies, nobody otherwise.
HasToken(h) == h.scheme = "Bearer" /\ h.token.present
Verifies(h) == HasToken(h) /\ h.token.sig
CallerId(h) == IF Verifies(h) THEN h.token.id ELSE ""
CallerRole(h) == IF Verifies(h) THEN h.token.role ELSE ""

Booked(p) == Done(p, "createAppointment") /\ res[p].status = 201
\* Rejected because the slot is taken: by the pre-check or by the index.
SlotConflict(p) ==
  /\ Done(p, "createAppointment")
  /\ \/ res[p].status = 400 /\ res[p].err = "ErrorResponse"
     \/ res[p].err = "E11000"

\* Two bookings of one slot decided in the same generation of the slot (it
\* was not vacated between them), with bodies the schema accepts and no
\* third request's appointment in the slot.
SameRace(p, q) ==
  /\ p # q
  /\ Done(p, "createAppointment") /\ Done(q, "createAppointment")
  /\ SlotOf(req[p].body) = SlotOf(req[q].body)
  /\ eff[p].gen = eff[q].gen
  /\ req[p].body.type \in ApptTypeEnum /\ req[q].body.type \in ApptTypeEnum
  /\ {eff[p].win, eff[q].win} \subseteq ({res[p].id, res[q].id} \ {0})

\* C1: of two createAppointment requests for one (counselor, date, time)
\* whose executions interleave in any way, the slot not being vacated in
\* between, exactly one is answered 201 and the other is rejected for the
\* taken slot; two bookings of one slot both succeed only when the slot was
\* vacated between them.
C1_OneBookingPerSlot ==
  \A p, q \in Procs :
    /\ (/\ p # q /\ Booked(p) /\ Booked(q)
        /\ SlotOf(req[p].body) = SlotOf(req[q].body))
         => eff[p].gen # eff[q].gen
    /\ SameRace(p, q) =>
         \/ Booked(p) /\ SlotConflict(q)
         \/ Booked(q) /\ SlotConflict(p)

\* Both requests passed the pre-check; the index rejected the second write.
C1_Witness ==
  \E p, q \in Procs :
    /\ SameRace(p, q)
    /\ Booked(p)
    /\ res[q].err = "E11000"

\* C2: no two stored appointments have the same (counselor, date, time).
C2_SlotsUnique ==
  \A i, j \in DOMAIN appts : i # j => SlotOf(appts[i]) # SlotOf(appts[j])

\* An update that moves an appointment onto a held slot has been rejected.
C2_Witness ==
  \E p \in Procs :
    /\ Done(p, "updateAppointment")
    /\ res[p].err = "E11000"
    /\ Cardinality(DOMAIN appts) = 2
    /\ req[p].body.date # 0

Mutations ==
  {"updateAppointment", "deleteAppointment", "updateBlog", "deleteBlog",
   "uploadBlogImage"}

\* The request names a record that exists and its caller is neither the
\* record's owner nor an admin.
Stranger(p) ==
  /\ req[p].op \in Mutations
  /\ eff[p].owner # ""
  /\ CallerId(req[p].hdr) # eff[p].owner
  /\ CallerRole(req[p].hdr) # "admin"

NoEffect(p) ==
  eff[p].writes = 0 /\ eff[p].uploads = 0 /\ eff[p].destroys = 0 /\ eff[p].emails = 0

\* C3: an update or delete of an appointment, or an update, delete or image
\* upload of a blog, by a caller who is neither the record's owner nor an
\* admin ends with 401 or 403 at the route's guards or at the handler's
\* ownership test, having written nothing and called no collaborator.
C3_StrangerRejected ==
  \A p \in Procs :
    (pc[p] # "idle" /\ Stranger(p)) =>
      /\ pc[p] \in {"done", "ua_findById", "da_findById"}
      /\ pc[p] = "done" => res[p].status \in {401, 403}
      /\ NoEffect(p)
      /\ Owner(req[p].op, req[p].id) = eff[p].owner

\* A user with a verifying token was refused another user's appointment.
C3_Witness ==
  \E p \in Procs :
    /\ Done(p, "updateAppointment")
    /\ Stranger(p)
    /\ CallerId(req[p].hdr) = "u2"
    /\ res[p].status = 401

\* Authorized to delete a blog that exists.
MayDeleteBlog(p) ==
  /\ Done(p, "deleteBlog")
  /\ eff[p].owner # ""
  /\ CallerRole(req[p].hdr) = "admin"

\* C4: an authorized deleteBlog of an existing blog is answered 200 and the
\* blog is gone from the store, whether or not the destroy of its image
\* threw.
C4_BlogDeletedRegardless ==
  \A p \in Procs :
    MayDeleteBlog(p) =>
      /\ res[p].status = 200 /\ res[p].data = "empty"
      /\ req[p].id \notin DOMAIN blogs
      /\ eff[p].writes = 1

\* The destroy threw and the blog was deleted all the same.
C4_Witness ==
  \E p \in Procs :
    /\ MayDeleteBlog(p)
    /\ eff[p].destroys = 1 /\ eff[p].destroyFailed
    /\ res[p].status = 200
    /\ req[p].id \notin DOMAIN blogs

\* C5: when an uploadBlogImage request has ended, the blog's image is empty
\* or names an asset the image host still holds.
C5_ImageNeverDangling ==
  \A p \in Procs :
    (Done(p, "uploadBlogImage") /\ req[p].id \in DOMAIN blogs) =>
      \/ blogs[req[p].id].image = 0
      \/ blogs[req[p].id].image \in assets

\* What the claims call an image type: the type before the slash is "image".
ImageType(m) ==
  Len(m) >= 6 /\ SubSeq(m, 1, 6) = <<"i", "m", "a", "g", "e", "/">>

\* An upload to an existing blog by an admin whose file is missing, not
\* of an image type, or larger than the configured maximum.
BadUpload(p) ==
  /\ req[p].op = "uploadBlogImage"
  /\ pc[p] # "idle"
  /\ eff[p].owner # ""
  /\ CallerRole(req[p].hdr) = "admin"
  /\ \/ ~req[p].file.present
     \/ ~ImageType(req[p].file.mime)
     \/ req[p].file.size > DefaultMaxFileUpload

\* C6: an uploadBlogImage whose file fails validation ends with 400 before any
\* upload or destroy is attempted and without a write to the blog.
C6_BadFileRejected ==
  \A p \in Procs :
    BadUpload(p) =>
      /\ pc[p] \in {"ui_findById", "done"}
      /\ pc[p] = "done" => res[p].status = 400
      /\ NoEffect(p)

\* A file one byte over the maximum was refused for a blog that has an
\* image to replace.
C6_Witness ==
  \E p \in Procs :
    /\ BadUpload(p)
    /\ pc[p] = "done"
    /\ req[p].file.size = DefaultMaxFileUpload + 1
    /\ ImageType(req[p].file.mime)
    /\ res[p].status = 400
    /\ blogs[req[p].id].image # 0

\* A createBlog, or an updateBlog of an existing blog, with a title and,
\* for a create, a content.
TitledWrite(p) ==
  /\ pc[p] = "done"
  /\ req[p].body.title.given
  /\ \/ req[p].op = "createBlog" /\ req[p].body.content
     \/ req[p].op = "updateBlog" /\ eff[p].owner # ""

\* C7: a title of exactly 100 characters is accepted by createBlog and
\* updateBlog; a title of 101 characters is answered 400 and nothing is
\* created or changed.
C7_TitleBoundary ==
  \A p \in Procs :
    TitledWrite(p) =>
      /\ RawLength(req[p].body.title) = TitleMaxLength =>
           res[p].status \in {200, 201} /\ eff[p].writes = 1
      /\ RawLength(req[p].body.title) = TitleMaxLength + 1 =>
           res[p].status = 400 /\ eff[p].writes = 0

\* C8: behind an admin-only route the handler is entered only for a bearer
\* token that verifies and whose role is admin; without a verifying token the
\* request ends with 401, with a verifying token of another role with 403,
\* and in both cases nothing has been written or called.
C8_AdminRoutesGuarded ==
  \A p \in Procs :
    (pc[p] # "idle" /\ req[p].op \in AdminOnlyOps) =>
      LET h == req[p].hdr
      IN  /\ eff[p].ran => (Verifies(h) /\ h.token.role = "admin")
          /\ ~Verifies(h) =>
               pc[p] = "done" /\ res[p].status = 401 /\ ~eff[p].ran /\ NoEffect(p)
          /\ (Verifies(h) /\ h.token.role # "admin") =>
               pc[p] = "done" /\ res[p].status = 403 /\ ~eff[p].ran /\ NoEffect(p)

\* A verified user token was refused the delete of an existing blog.
C8_Witness ==
  \E p \in Procs :
    /\ Done(p, "deleteBlog")
    /\ Verifies(req[p].hdr) /\ req[p].hdr.token.role = "user"
    /\ res[p].status = 403
    /\ req[p].id \in DOMAIN blogs

\* The request's Appointment.create has stored its record.
Stored(p) ==
  /\ pc[p] # "idle"
  /\ req[p].op = "createAppointment"
  /\ eff[p].writes > 0

\* C9: once a createAppointment has stored its record, the request ends with
\* 201 and that record, after exactly one sendEmail, whether the send threw or
\* not; the record stays in the store as it was written.
C9_EmailNeverFailsBooking ==
  \A p \in Procs :
    Stored(p) =>
      /\ eff[p].writes = 1
      /\ eff[p].emails <= 1
      /\ res[p].id \in DOMAIN appts
      /\ Held(appts[res[p].id]) = doc[p]
      /\ doc[p].user = CallerId(req[p].hdr)
      /\ pc[p] \in {"ca_email", "done"}
      /\ pc[p] = "done" =>
           res[p].status = 201 /\ res[p].data = "doc" /\ eff[p].emails = 1

\* The send threw and the booking was answered 201.
C9_Witness ==
  \E p \in Procs :
    /\ Stored(p)
    /\ pc[p] = "done"
    /\ eff[p].emailFailed
    /\ res[p].status = 201

\* C10: a deleteAppointment by the appointment's own user is answered 200
\* with empty data and the record is gone; the same caller's delete of the
\* same id after that is answered 404 and writes nothing.
C10_DeleteThenNotFound ==
  \A p \in Procs :
    Done(p, "deleteAppointment") =>
      /\ (eff[p].owner # "" /\ eff[p].owner = CallerId(req[p].hdr)) =>
           /\ res[p].status = 200 /\ res[p].data = "empty"
           /\ req[p].id \notin DOMAIN appts
      /\ eff[p].goneBefore =>
           /\ res[p].status = 404
           /\ NoEffect(p)
           /\ req[p].id \notin DOMAIN appts

\* The user's second delete of an appointment of theirs was answered 404.
C10_Witness ==
  \E p \in Procs :
    /\ Done(p, "deleteAppointment")
    /\ eff[p].goneBefore
    /\ CallerRole(req[p].hdr) = "user"
    /\ res[p].status = 404

\* A getAppointment that followed the createAppointment of the record it
\* names, by the same identity, has been answered.
Following(p) == Done(p, "getAppointment") /\ eff[p].follows

\* The record returned has the fields of the booking's body.
RoundTrips(p) ==
  LET in == eff[p].input
      out == res[p].payload
  IN  /\ res[p].status = 200
      /\ out.counselor.found /\ out.counselor.id = in.counselor
      /\ out.type = in.type /\ out.date = in.date /\ out.time = in.time
      /\ out.notes = in.notes
      /\ out.user.found /\ out.user.id = CallerId(req[p].hdr)
      /\ in.status = "" => out.status = DefaultStatus

\* C11: a getAppointment that follows a successful createAppointment, of the
\* id it returned and by the same identity, returns a record whose counselor,
\* type, date, time and notes are those of the booking's body, whose user is
\* the caller whatever user the body named, and whose status is pending when
\* the body gave none.
C11_RoundTrip == \A p \in Procs : Following(p) => RoundTrips(p)

\* The request's upload to the image host threw.
UploadFailed(p) ==
  /\ req[p].op = "uploadBlogImage"
  /\ eff[p].uploads = 1
  /\ doc[p].newImage = 0

\* C12: in an uploadBlogImage the destroy of the blog's previous asset is
\* called only after the upload of the new file has returned an asset; when
\* the upload throws, the request ends with no destroy called, the previous
\* asset where it was and the blog's image as the request found it.
C12_DestroyOnlyAfterUpload ==
  \A p \in Procs :
    (req[p].op = "uploadBlogImage" /\ pc[p] # "idle") =>
      /\ eff[p].destroys > 0 =>
           /\ eff[p].uploads = 1
           /\ doc[p].newImage # 0 /\ doc[p].newImage \in assets
           /\ doc[p].newImage # doc[p].image
      /\ UploadFailed(p) =>
           /\ pc[p] = "done" /\ res[p].status = 500
           /\ eff[p].destroys = 0 /\ eff[p].writes = 0
           /\ req[p].id \in DOMAIN blogs
           /\ blogs[req[p].id].image = doc[p].image

\* The upload threw for a blog whose image had replaced an earlier one: the
\* image and its asset are as they were.
C12_Witness ==
  \E p \in Procs :
    /\ UploadFailed(p)
    /\ pc[p] = "done"
    /\ doc[p].image > 1
    /\ blogs[req[p].id].image = doc[p].image
    /\ doc[p].image \in assets
    /\ 1 \notin assets
====
